---------------------------- MODULE Spec2Model ----------------------------
(***************************************************************************)
(* The point-tracker worker of ftnoir_tracker_pt.cpp: class Tracker.       *)
(*                                                                         *)
(* Two threads: the owner (the thread that constructs the Tracker, calls   *)
(* start_tracker, apply, data, StopTracker and finally the destructor) and *)
(* the worker (QThread::run).  Every shared-memory access of the source is *)
(* one step, so that every interleaving of the two threads is explored.    *)
(***************************************************************************)
EXTENDS Integers, Sequences, FiniteSets, TLC

(***************************************************************************)
(* Bounds of the exploration.                                              *)
(***************************************************************************)
\* number of apply() calls the owner makes besides the one in start_tracker
MaxApply == 2
\* number of distinct settings objects the owner can hand over
NumSnapshots == 2
\* number of distinct pictures the camera delivers
NumFrames == 2
\* largest number of points the extractor finds in a frame
MaxPoints == 4

\* PointModel::N_POINTS, the size of the model (run, line 87)
N_POINTS == 3

NULL == "NULL"
\* nullptr as a settings*
nullptr == [ptr |-> 0, pub |-> 0, over |-> FALSE]
OWNER == "owner"
WORKER == "worker"
Threads == {OWNER, WORKER}

\* enum Command of the Tracker (set_command, reset_command, run)
ABORT == "ABORT"
PAUSE == "PAUSE"
Command == {ABORT, PAUSE}

(***************************************************************************)
(* Vectors and matrices (cv::Vec3f, cv::Matx33f) over the integers.        *)
(***************************************************************************)
Zero3 == <<0, 0, 0>>
Eye == <<<<1, 0, 0>>, <<0, 1, 0>>, <<0, 0, 1>>>>

Dot(a, b) == a[1] * b[1] + a[2] * b[2] + a[3] * b[3]
Col(M, j) == <<M[1][j], M[2][j], M[3][j]>>
Transpose(M) == <<Col(M, 1), Col(M, 2), Col(M, 3)>>
MatVec(M, v) == <<Dot(M[1], v), Dot(M[2], v), Dot(M[3], v)>>
MatMul(A, B) == [i \in 1..3 |-> [j \in 1..3 |-> Dot(A[i], Col(B, j))]]
VecAdd(a, b) == <<a[1] + b[1], a[2] + b[2], a[3] + b[3]>>

\* Affine: a rotation R and a translation t; X * Y composes them
Affine(R, t) == [R |-> R, t |-> t]
AffineMul(X, Y) == Affine(MatMul(X.R, Y.R), VecAdd(MatVec(X.R, Y.t), X.t))

\* the settings object number k, as the fields apply_inner reads
Settings(k) ==
    [m01_x |-> 10 * k, m01_y |-> 0, m01_z |-> 0,
     m02_x |-> 0, m02_y |-> 10 * k, m02_z |-> 0,
     cam_index |-> k, cam_res_x |-> 320 * k, cam_res_y |-> 240 * k,
     cam_fps |-> 30 * k,
     threshold |-> 100 + k, threshold_secondary |-> 50 + k,
     min_point_size |-> k, max_point_size |-> 10 + k,
     t_MH_x |-> 10 * k, t_MH_y |-> 20 * k, t_MH_z |-> 0]

Snapshots == 1..NumSnapshots
AllSettings == {Settings(k) : k \in Snapshots}

\* a settings* as the pending slot holds it: the object pointed to, tagged
\* with the number of the apply() call that stored it and with whether that
\* store overwrote a pointer nobody had taken
Ref(k, n, over) == [ptr |-> k, pub |-> n, over |-> over]

\* `*tmp`: the object behind a pointer; dereferencing nullptr is undefined
Deref(p) == IF p = nullptr THEN AllSettings ELSE {Settings(p.ptr)}

\* PointModel(M01, M02)
PointModel(M01, M02) == [M01 |-> M01, M02 |-> M02]

\* the poses point_tracker.track can compute from a frame
RotZ == <<<<0, -1, 0>>, <<1, 0, 0>>, <<0, 0, 1>>>>
TrackedPoses == {Affine(RotZ, <<10, 20, 30>>)}
InitialPose == Affine(Eye, Zero3)
Poses == TrackedPoses \cup {InitialPose}
\* no pose: a local that is out of scope
NoPose == Affine(<<>>, <<>>)
\* THeadPoseData, indexed by Yaw, Pitch, Roll, TX, TY, TZ
HeadPoseData(yaw, pitch, roll, tx, ty, tz) ==
    [Yaw |-> yaw, Pitch |-> pitch, Roll |-> roll, TX |-> tx, TY |-> ty, TZ |-> tz]
NoData == HeadPoseData(0, 0, 0, 0, 0, 0)


(***************************************************************************)
(* State.                                                                  *)
(***************************************************************************)
VARIABLES
    pc,               \* where each thread is in the source
    commands,         \* Tracker::commands, the set bits
    mutex,            \* Tracker::mutex (QMutex::Recursive): holder and depth
    new_settings,     \* Tracker::new_settings, the pending slot
    tmp,              \* apply_inner's local tmp, per thread
    model,            \* Tracker::model
    camera,           \* Tracker::camera
    point_extractor,  \* Tracker::point_extractor
    t_MH,             \* Tracker::t_MH
    X_CM,             \* the pose held by Tracker::point_tracker
    video_frame,      \* Tracker::video_frame
    video_widget,     \* Tracker::video_widget
    image,            \* the frame the video widget shows (0: none yet)
    frame,            \* run's local frame (0: an empty cv::Mat)
    points,           \* run's local points (their number)
    tracked,          \* the pose track() is writing
    X_CM_copy,        \* data's local X_CM
    t_MH_copy,        \* data's local X_MH (its translation)
    data,             \* the caller's array data() fills
    pubs,             \* history: number of apply() calls so far
    consumed,         \* history: what apply_inner took from the slot last,
                      \* and the number of apply() calls made by then
    poseAtLock,       \* history: the pose when the iteration took the lock
    sinceAbort        \* history: the worker's steps since ABORT was set

vars == <<pc, commands, mutex, new_settings, tmp, model, camera,
          point_extractor, t_MH, X_CM, video_frame, video_widget, image,
          frame, points, tracked, X_CM_copy, t_MH_copy, data, pubs,
          consumed, poseAtLock, sinceAbort>>

config == <<model, camera, point_extractor, t_MH>>
widget == <<video_frame, video_widget, image>>
runLocals == <<frame, points, tracked, poseAtLock>>
dataLocals == <<X_CM_copy, t_MH_copy, data>>

Goto(self, label) == pc' = [pc EXCEPT ![self] = label]

\* QMutexLocker on the recursive mutex
Unlocked == [holder |-> NULL, depth |-> 0]
CanLock(m, self) == m.holder \in {NULL, self}
Lock(m, self) == [holder |-> self, depth |-> m.depth + 1]
\* a locker that outlives its block: the mutex stays taken
UnlockNever(m) == m
Unlock(m) == IF m.depth = 1 THEN Unlocked ELSE [m EXCEPT !.depth = @ - 1]

\* the constructor: Tracker::Tracker
Init ==
    /\ pc = [t \in Threads |-> IF t = OWNER THEN "ready" ELSE "idle"]
    /\ commands = {}
    /\ mutex = Unlocked
    /\ new_settings = nullptr
    /\ tmp = [t \in Threads |-> nullptr]
    /\ model = PointModel(Zero3, Zero3)
    /\ camera = [device_index |-> 0, res_x |-> 0, res_y |-> 0, fps |-> 0,
                 started |-> FALSE]
    /\ point_extractor = [threshold_val |-> 0, threshold_secondary_val |-> 0,
                          min_size |-> 0, max_size |-> 0]
    /\ t_MH = Zero3
    /\ X_CM = InitialPose
    /\ video_frame = NULL
    /\ video_widget = NULL
    /\ image = 0
    /\ frame = 0
    /\ points = 0
    /\ tracked = NoPose
    /\ X_CM_copy = NoPose
    /\ t_MH_copy = <<>>
    /\ data = NoData
    /\ pubs = 0
    /\ consumed = [ref |-> nullptr, latest |-> 0]
    /\ poseAtLock = NoPose
    /\ sinceAbort = [consume |-> 0, fetch |-> 0, process |-> 0]

\* history: count one more step of kind k since ABORT was set, up to 2
Count(k) ==
    sinceAbort' = IF ABORT \in commands /\ sinceAbort[k] < 2
                  THEN [sinceAbort EXCEPT ![k] = @ + 1]
                  ELSE sinceAbort


(***************************************************************************)
(* Tracker::set_command, Tracker::reset_command, Tracker::StopTracker      *)
(***************************************************************************)
set_command(c, command) == c \cup {command}
reset_command(c, command) == c \ {command}

\* StopTracker(exit): set_command(PAUSE)
StopTracker ==
    /\ pc[OWNER] = "ready"
    /\ commands' = set_command(commands, PAUSE)
    /\ UNCHANGED <<pc, mutex, new_settings, tmp, config, X_CM, widget,
                   runLocals, dataLocals, pubs, consumed, sinceAbort>>

\* reset_command(command), called by the owner
ResetCommand ==
    /\ pc[OWNER] = "ready"
    /\ \E c \in Command : commands' = reset_command(commands, c)
    /\ UNCHANGED <<pc, mutex, new_settings, tmp, config, X_CM, widget,
                   runLocals, dataLocals, pubs, consumed, sinceAbort>>

(***************************************************************************)
(* Tracker::apply: new_settings = &s                                       *)
(***************************************************************************)
\* a store that keeps a pointer nobody has taken yet
StoreSettingsIfEmpty(slot, ref) == IF slot = nullptr THEN ref ELSE slot

\* the slot after the store of line 102, whatever it held
StoreSettings(slot, ref) == ref

\* the apply() calls the owner has made, the one of start_tracker aside
UserApplies ==
    pubs - (IF video_frame # NULL /\ pc[OWNER] # "st_apply" THEN 1 ELSE 0)

\* apply() taking the mutex around its store: it waits for a frame in flight
ApplyLocked ==
    /\ pc[OWNER] = "ready"
    /\ UserApplies < MaxApply
    /\ CanLock(mutex, OWNER)
    /\ \E k \in Snapshots :
           new_settings' = StoreSettings(new_settings,
                                         Ref(k, pubs + 1, new_settings # nullptr))
    /\ pubs' = pubs + 1
    /\ UNCHANGED <<pc, commands, mutex, tmp, config, X_CM, widget, runLocals,
                   dataLocals, consumed, sinceAbort>>

\* lines 99 to 103: one store, no lock
Apply ==
    /\ pc[OWNER] = "ready"
    /\ UserApplies < MaxApply
    /\ \E k \in Snapshots :
           new_settings' = StoreSettings(new_settings,
                                         Ref(k, pubs + 1, new_settings # nullptr))
    /\ pubs' = pubs + 1
    /\ UNCHANGED <<pc, commands, mutex, tmp, config, X_CM, widget, runLocals,
                   dataLocals, consumed, sinceAbort>>

(***************************************************************************)
(* Tracker::apply_inner, run by the owner inside start_tracker and by the  *)
(* worker at the head of every iteration of run.                           *)
(***************************************************************************)
\* start_tracker with camera.start() ahead of apply(s) and apply_inner()
StartNextCameraFirst(label) ==
    CASE label = "ready" -> "st_camera"
      [] label = "st_camera" -> "st_apply"
      [] label = "st_apply" -> "ai_exchange"
      [] label = "ai_return" -> "st_start"
      [] label = "st_start" -> "ready"

\* the order of the steps of start_tracker (lines 134 to 146)
StartNext(label) ==
    CASE label = "ready" -> "st_apply"
      [] label = "st_apply" -> "ai_exchange"
      [] label = "ai_return" -> "st_camera"
      [] label = "st_camera" -> "st_start"
      [] label = "st_start" -> "ready"

\* run with apply_inner() at the foot of the loop body instead of its head
RunNextApplyLast(label) ==
    CASE label = "run_while" -> "run_get_frame"
      [] label = "run_end" -> "ai_exchange"
      [] label = "ai_return" -> "run_while"

\* the order of the statements of run (lines 59 to 90) around apply_inner
RunNext(label) ==
    CASE label = "run_while" -> "ai_exchange"
      [] label = "ai_return" -> "run_get_frame"
      [] label = "run_end" -> "run_while"

\* a run that goes round the loop again after it has left it
RunExitLoopsBack(label) ==
    CASE label = "run_while" -> "run_done"
      [] label = "run_done" -> "run_while"

\* the way out of run (lines 96 to 98): the loop is left, the thread says so
\* and run returns
RunExit(label) ==
    CASE label = "run_while" -> "run_done"
      [] label = "run_done" -> "run_exit"

\* apply_inner with the offset computed first and the model last
ApplyNextOffsetFirst(label) ==
    CASE label = "ai_exchange" -> "ai_offset"
      [] label = "ai_offset" -> "ai_camera"
      [] label = "ai_camera" -> "ai_extractor"
      [] label = "ai_extractor" -> "ai_model"
      [] label = "ai_model" -> "ai_return"

\* the order of the steps of apply_inner (lines 116 to 129)
ApplyNext(label) ==
    CASE label = "ai_exchange" -> "ai_model"
      [] label = "ai_model" -> "ai_camera"
      [] label = "ai_camera" -> "ai_extractor"
      [] label = "ai_extractor" -> "ai_offset"
      [] label = "ai_offset" -> "ai_return"

\* where apply_inner returns to: line 145 in start_tracker, line 62 in run
ReturnTo(self) ==
    IF self = OWNER THEN StartNext("ai_return") ELSE RunNext("ai_return")

\* the label after a step of apply_inner
AfterApply(self, label) ==
    IF ApplyNext(label) = "ai_return" THEN ReturnTo(self) ELSE ApplyNext(label)

\* a load in place of the exchange: the slot keeps its pointer
ExchangeStoreKeep(old) == old

\* what new_settings.exchange(nullptr) leaves in the slot (line 110)
ExchangeStore(old) == nullptr

\* apply_inner without the early return of lines 111 and 112
HasSettingsAlways(p) == TRUE

\* the test of line 111, negated: there are settings to apply
HasSettings(p) == p # nullptr

ApplyInnerExchange(self) ==
    /\ pc[self] = "ai_exchange"
    /\ tmp' = [tmp EXCEPT ![self] = new_settings]
    /\ new_settings' = ExchangeStore(new_settings)
    /\ IF HasSettings(new_settings)
       THEN Goto(self, AfterApply(self, "ai_exchange"))
       ELSE Goto(self, ReturnTo(self))
    /\ consumed' = IF new_settings # nullptr
                   THEN [ref |-> new_settings, latest |-> pubs]
                   ELSE consumed
    /\ IF self = WORKER THEN Count("consume") ELSE UNCHANGED sinceAbort
    /\ UNCHANGED <<commands, mutex, config, X_CM, widget, runLocals,
                   dataLocals, pubs>>

\* lines 116 to 120: the model built from the settings s
ModelOf(s) ==
    PointModel(<<s.m01_x, s.m01_y, s.m01_z>>, <<s.m02_x, s.m02_y, s.m02_z>>)

\* lines 121 to 123: the camera cam after set_device_index, set_res, set_fps
CameraOf(s, cam) ==
    [cam EXCEPT !.device_index = s.cam_index, !.res_x = s.cam_res_x,
                !.res_y = s.cam_res_y, !.fps = s.cam_fps]

\* lines 124 to 127: the fields of the extractor
ExtractorOf(s) ==
    [threshold_val |-> s.threshold,
     threshold_secondary_val |-> s.threshold_secondary,
     min_size |-> s.min_point_size,
     max_size |-> s.max_point_size]

\* line 128: the offset from the head to the model
OffsetOf(s) == <<s.t_MH_x, s.t_MH_y, s.t_MH_z>>

\* lines 116 to 120
ApplyInnerModel(self) ==
    /\ pc[self] = "ai_model"
    /\ \E s \in Deref(tmp[self]) : model' = ModelOf(s)
    /\ Goto(self, AfterApply(self, "ai_model"))
    /\ UNCHANGED <<commands, mutex, new_settings, tmp, camera,
                   point_extractor, t_MH, X_CM, widget, runLocals, dataLocals,
                   pubs, consumed, sinceAbort>>

\* lines 121 to 123
ApplyInnerCamera(self) ==
    /\ pc[self] = "ai_camera"
    /\ \E s \in Deref(tmp[self]) : camera' = CameraOf(s, camera)
    /\ Goto(self, AfterApply(self, "ai_camera"))
    /\ UNCHANGED <<commands, mutex, new_settings, tmp, model,
                   point_extractor, t_MH, X_CM, widget, runLocals, dataLocals,
                   pubs, consumed, sinceAbort>>

\* lines 124 to 127
ApplyInnerExtractor(self) ==
    /\ pc[self] = "ai_extractor"
    /\ \E s \in Deref(tmp[self]) : point_extractor' = ExtractorOf(s)
    /\ Goto(self, AfterApply(self, "ai_extractor"))
    /\ UNCHANGED <<commands, mutex, new_settings, tmp, model, camera, t_MH,
                   X_CM, widget, runLocals, dataLocals, pubs, consumed, sinceAbort>>

\* a pointer kept after the call, as a member would keep it
EndOfCallKeeps(p) == p

\* line 130: tmp and s are locals of apply_inner and end with the call
EndOfCall(p) == nullptr

\* line 128, and the return
ApplyInnerOffset(self) ==
    /\ pc[self] = "ai_offset"
    /\ \E s \in Deref(tmp[self]) : t_MH' = OffsetOf(s)
    /\ tmp' = [tmp EXCEPT ![self] = EndOfCall(tmp[self])]
    /\ Goto(self, AfterApply(self, "ai_offset"))
    /\ UNCHANGED <<commands, mutex, new_settings, model, camera,
                   point_extractor, X_CM, widget, runLocals, dataLocals, pubs,
                   consumed, sinceAbort>>


(***************************************************************************)
(* Tracker::start_tracker.  The caller calls it at most once per Tracker.  *)
(***************************************************************************)
\* lines 134 to 142: the video frame and the video widget
StartWidget ==
    /\ pc[OWNER] = "ready"
    /\ video_frame = NULL
    /\ video_frame' = "parent_window"
    /\ video_widget' = "PTVideoWidget"
    /\ Goto(OWNER, StartNext("ready"))
    /\ UNCHANGED <<commands, mutex, new_settings, tmp, config, X_CM, image,
                   runLocals, dataLocals, pubs, consumed,
                   sinceAbort>>

\* line 143: apply(s); the call of apply_inner of line 144 follows
StartApply ==
    /\ pc[OWNER] = "st_apply"
    /\ \E k \in Snapshots :
           new_settings' = StoreSettings(new_settings,
                                         Ref(k, pubs + 1, new_settings # nullptr))
    /\ pubs' = pubs + 1
    /\ Goto(OWNER, StartNext("st_apply"))
    /\ UNCHANGED <<commands, mutex, tmp, config, X_CM, widget, runLocals,
                   dataLocals, consumed, sinceAbort>>

\* line 145: camera.start()
StartCamera ==
    /\ pc[OWNER] = "st_camera"
    /\ camera' = [camera EXCEPT !.started = TRUE]
    /\ Goto(OWNER, StartNext("st_camera"))
    /\ UNCHANGED <<commands, mutex, new_settings, tmp, model,
                   point_extractor, t_MH, X_CM, widget, runLocals, dataLocals,
                   pubs, consumed, sinceAbort>>

\* line 146: start(), the worker thread begins run()
StartThread ==
    /\ pc[OWNER] = "st_start"
    /\ pc' = [pc EXCEPT ![OWNER] = StartNext("st_start"), ![WORKER] = "run_while"]
    /\ UNCHANGED <<commands, mutex, new_settings, tmp, config, X_CM, widget,
                   runLocals, dataLocals, pubs, consumed,
                   sinceAbort>>

(***************************************************************************)
(* Tracker::run, the worker thread.                                        *)
(***************************************************************************)
\* the loop testing the PAUSE bit
LoopConditionPause(c) == PAUSE \notin c

\* the loop testing for any command: commands == 0
LoopConditionAny(c) == c = {}

\* the loop testing for all the bits at once
LoopConditionAll(c) == c # Command

\* line 59: (commands & ABORT) == 0
LoopCondition(c) == ABORT \notin c

\* the test of line 67 without its second half
FrameUsableIfNew(new_frame, f) == new_frame

\* line 67: new_frame && !frame.empty()
FrameUsable(new_frame, f) == new_frame /\ f # 0

\* the size test as "enough points"
ShouldTrackAtLeast(n) == n >= N_POINTS

\* line 87: points.size() == PointModel::N_POINTS
ShouldTrack(n) == n = N_POINTS

\* line 59; line 61 calls apply_inner, line 97 follows the loop
RunWhile ==
    /\ pc[WORKER] = "run_while"
    /\ IF LoopCondition(commands)
       THEN Goto(WORKER, RunNext("run_while"))
       ELSE Goto(WORKER, RunExit("run_while"))
    /\ UNCHANGED <<commands, mutex, new_settings, tmp, config, X_CM, widget,
                   runLocals, dataLocals, pubs, consumed,
                   sinceAbort>>

\* lines 62 to 67: camera.get_frame(dt, &frame) and the test of its result
RunGetFrame ==
    /\ pc[WORKER] = "run_get_frame"
    /\ \E new_frame \in BOOLEAN, f \in 0..NumFrames :
           IF FrameUsable(new_frame, f)
           THEN /\ frame' = f
                /\ Goto(WORKER, "run_lock")
           ELSE /\ frame' = 0
                /\ Goto(WORKER, RunNext("run_end"))
    /\ Count("fetch")
    /\ UNCHANGED <<commands, mutex, new_settings, tmp, config, X_CM, widget,
                   points, tracked, poseAtLock, dataLocals, pubs, consumed>>

\* line 69: QMutexLocker lock(&mutex)
RunLock ==
    /\ pc[WORKER] = "run_lock"
    /\ CanLock(mutex, WORKER)
    /\ mutex' = Lock(mutex, WORKER)
    /\ poseAtLock' = X_CM
    /\ Goto(WORKER, "run_extract")
    /\ Count("process")
    /\ UNCHANGED <<commands, new_settings, tmp, config, X_CM, widget, frame,
                   points, tracked, dataLocals, pubs, consumed>>

\* lines 71 to 87: extract_points, the markers drawn on the frame, the size test
RunExtract ==
    /\ pc[WORKER] = "run_extract"
    /\ \E n \in 0..MaxPoints :
           /\ points' = n
           /\ IF ShouldTrack(n)
              THEN Goto(WORKER, "run_track_R")
              ELSE Goto(WORKER, "run_update_image")
    /\ UNCHANGED <<commands, mutex, new_settings, tmp, config, X_CM, widget,
                   frame, tracked, poseAtLock, dataLocals, pubs, consumed, sinceAbort>>

\* line 88: point_tracker.track(points, model) writes the pose, R first
RunTrackR ==
    /\ pc[WORKER] = "run_track_R"
    /\ \E p \in TrackedPoses :
           /\ tracked' = p
           /\ X_CM' = [X_CM EXCEPT !.R = p.R]
    /\ Goto(WORKER, "run_track_t")
    /\ UNCHANGED <<commands, mutex, new_settings, tmp, config, widget, frame,
                   points, poseAtLock, dataLocals, pubs, consumed, sinceAbort>>

\* line 88, the rest: the translation of the pose
RunTrackT ==
    /\ pc[WORKER] = "run_track_t"
    /\ X_CM' = [X_CM EXCEPT !.t = tracked.t]
    /\ tracked' = NoPose
    /\ Goto(WORKER, "run_update_image")
    /\ UNCHANGED <<commands, mutex, new_settings, tmp, config, widget, frame,
                   points, poseAtLock, dataLocals, pubs, consumed, sinceAbort>>

\* line 89: video_widget->update_image(frame)
RunUpdateImage ==
    /\ pc[WORKER] = "run_update_image"
    /\ image' = frame
    /\ Goto(WORKER, "run_unlock")
    /\ UNCHANGED <<commands, mutex, new_settings, tmp, config, X_CM,
                   video_frame, video_widget, runLocals, dataLocals, pubs,
                   consumed, sinceAbort>>

\* line 90: the end of the block unlocks the mutex and ends the locals
RunUnlock ==
    /\ pc[WORKER] = "run_unlock"
    /\ mutex' = Unlock(mutex)
    /\ frame' = 0
    /\ points' = 0
    /\ poseAtLock' = NoPose
    /\ Goto(WORKER, RunNext("run_end"))
    /\ UNCHANGED <<commands, new_settings, tmp, config, X_CM, widget, tracked,
                   dataLocals, pubs, consumed, sinceAbort>>


\* lines 97 and 98: qDebug()<<"Tracker:: Thread stopping", and run returns
RunDone ==
    /\ pc[WORKER] = "run_done"
    /\ Goto(WORKER, RunExit("run_done"))
    /\ UNCHANGED <<commands, mutex, new_settings, tmp, config, X_CM, widget,
                   runLocals, dataLocals, pubs, consumed, sinceAbort>>

(***************************************************************************)
(* Tracker::data: the pose as yaw, pitch, roll and a translation in cm.    *)
(***************************************************************************)
\* lines 173 to 175
R_EG == <<<<0, 0, -1>>, <<-1, 0, 0>>, <<0, 1, 0>>>>

\* the change of basis without the transposed factor
BasisChangeOneSided(R) == MatMul(R_EG, R)

\* line 176: R = R_EG * R * R_EG.t()
BasisChange(R) == MatMul(MatMul(R_EG, R), Transpose(R_EG))

\* sqrt, on the squares
Sqrt(n) == CHOOSE r \in 0..n : r * r = n

\* rad2deg * atan2(y, x), on the directions that are multiples of 45 degrees
Atan2Deg(y, x) ==
    CASE y = 0 /\ x >= 0 -> 0
      [] y = 0 /\ x < 0 -> 180
      [] x = 0 /\ y > 0 -> 90
      [] x = 0 /\ y < 0 -> -90
      [] x > 0 /\ y = x -> 45
      [] x > 0 /\ y = -x -> -45
      [] x < 0 /\ y = -x -> 135
      [] x < 0 /\ y = x -> -135

\* lines 165 to 192: the array data() writes for the pose X and the offset
PoseData(X, offset) ==
    LET X_MH == Affine(Eye, offset)
        X_GH == AffineMul(X, X_MH)
        t == X_GH.t
        R == BasisChange(X_GH.R)
        beta == Atan2Deg(-R[3][1], Sqrt(R[3][2] * R[3][2] + R[3][3] * R[3][3]))
        alpha == Atan2Deg(R[2][1], R[1][1])
        gamma == Atan2Deg(R[3][2], R[3][3])
    IN  HeadPoseData(alpha, -beta, gamma, t[1] \div 10, t[2] \div 10, t[3] \div 10)

\* line 163: X_CM = point_tracker.pose(), the rotation of the copy
DataReadR ==
    /\ pc[OWNER] = "ready"
    /\ X_CM_copy' = [X_CM_copy EXCEPT !.R = X_CM.R]
    /\ Goto(OWNER, "data_pose_t")
    /\ UNCHANGED <<commands, mutex, new_settings, tmp, config, X_CM, widget,
                   runLocals, t_MH_copy, data, pubs, consumed, sinceAbort>>

\* line 163, the rest: the translation of the copy
DataReadT ==
    /\ pc[OWNER] = "data_pose_t"
    /\ X_CM_copy' = [X_CM_copy EXCEPT !.t = X_CM.t]
    /\ Goto(OWNER, "data_offset")
    /\ UNCHANGED <<commands, mutex, new_settings, tmp, config, X_CM, widget,
                   runLocals, t_MH_copy, data, pubs, consumed, sinceAbort>>

\* the vectors a read of three floats can return while they are being
\* overwritten: each component is the old one or the new one
Torn(old, new) ==
    {<<x, y, z>> : x \in {old[1], new[1]}, y \in {old[2], new[2]},
                   z \in {old[3], new[3]}}

\* what the read of t_MH at line 165 can return.  The read is made without
\* the mutex; when the worker is at the write of line 128 the two accesses
\* race, and the read returns any mix of the vector and the one being stored
OffsetRead ==
    IF pc[WORKER] = "ai_offset"
    THEN UNION {Torn(t_MH, OffsetOf(s)) : s \in Deref(tmp[WORKER])}
    ELSE {t_MH}

\* line 165: X_MH(Matx33f::eye(), t_MH); lines 166 to 182 work on the locals
DataReadOffset ==
    /\ pc[OWNER] = "data_offset"
    /\ \E v \in OffsetRead : t_MH_copy' = v
    /\ Goto(OWNER, "data_lock")
    /\ UNCHANGED <<commands, mutex, new_settings, tmp, config, X_CM, widget,
                   runLocals, X_CM_copy, data, pubs, consumed, sinceAbort>>

\* lines 184 to 192: QMutexLocker lock(&mutex), then the array is filled
DataLockWrite ==
    /\ pc[OWNER] = "data_lock"
    /\ CanLock(mutex, OWNER)
    /\ mutex' = Lock(mutex, OWNER)
    /\ data' = PoseData(X_CM_copy, t_MH_copy)
    /\ Goto(OWNER, "data_unlock")
    /\ UNCHANGED <<commands, new_settings, tmp, config, X_CM, widget,
                   runLocals, X_CM_copy, t_MH_copy, pubs, consumed, sinceAbort>>

\* line 193: the return unlocks the mutex; the locals end, and the array is
\* the caller's from here on
DataUnlock ==
    /\ pc[OWNER] = "data_unlock"
    /\ mutex' = Unlock(mutex)
    /\ X_CM_copy' = NoPose
    /\ t_MH_copy' = <<>>
    /\ data' = NoData
    /\ Goto(OWNER, "ready")
    /\ UNCHANGED <<commands, new_settings, tmp, config, X_CM, widget,
                   runLocals, pubs, consumed, sinceAbort>>

(***************************************************************************)
(* Tracker::~Tracker                                                       *)
(***************************************************************************)
\* a destructor that does not wait for the thread
JoinedAtOnce(workerPc) == TRUE

\* QThread::wait returns once run() has returned, or at once when the
\* thread was never started
Joined(workerPc) == workerPc \in {"idle", "run_exit"}

\* line 32: set_command(ABORT)
DtorAbort ==
    /\ pc[OWNER] = "ready"
    /\ commands' = set_command(commands, ABORT)
    /\ Goto(OWNER, "dtor_wait")
    /\ UNCHANGED <<mutex, new_settings, tmp, config, X_CM, widget, runLocals,
                   dataLocals, pubs, consumed, sinceAbort>>

\* line 33: wait()
DtorWait ==
    /\ pc[OWNER] = "dtor_wait"
    /\ Joined(pc[WORKER])
    /\ Goto(OWNER, "dtor_delete")
    /\ UNCHANGED <<commands, mutex, new_settings, tmp, config, X_CM, widget,
                   runLocals, dataLocals, pubs, consumed,
                   sinceAbort>>

\* lines 34 and 35: delete video_widget; video_widget = NULL
DtorDelete ==
    /\ pc[OWNER] = "dtor_delete"
    /\ video_widget' = NULL
    /\ Goto(OWNER, "dtor_layout")
    /\ UNCHANGED <<commands, mutex, new_settings, tmp, config, X_CM,
                   video_frame, image, runLocals, dataLocals, pubs, consumed, sinceAbort>>

\* line 36: video_frame->layout(); through a null video_frame the call is
\* undefined: the build may crash or carry on
DtorLayout ==
    /\ pc[OWNER] = "dtor_layout"
    /\ \E outcome \in (IF video_frame = NULL
                       THEN {"destroyed", "crashed"}
                       ELSE {"destroyed"}) : Goto(OWNER, outcome)
    /\ UNCHANGED <<commands, mutex, new_settings, tmp, config, X_CM, widget,
                   runLocals, dataLocals, pubs, consumed,
                   sinceAbort>>

(***************************************************************************)
(* The program.                                                            *)
(***************************************************************************)
Owner ==
    \/ StopTracker
    \/ ResetCommand
    \/ Apply
    \/ StartWidget
    \/ StartApply
    \/ StartCamera
    \/ StartThread
    \/ DataReadR
    \/ DataReadT
    \/ DataReadOffset
    \/ DataLockWrite
    \/ DataUnlock
    \/ DtorAbort
    \/ DtorWait
    \/ DtorDelete
    \/ DtorLayout

Worker ==
    \/ RunWhile
    \/ RunGetFrame
    \/ RunLock
    \/ RunExtract
    \/ RunTrackR
    \/ RunTrackT
    \/ RunUpdateImage
    \/ RunUnlock
    \/ RunDone

ApplyInner(self) ==
    \/ ApplyInnerExchange(self)
    \/ ApplyInnerModel(self)
    \/ ApplyInnerCamera(self)
    \/ ApplyInnerExtractor(self)
    \/ ApplyInnerOffset(self)

Next == Owner \/ Worker \/ (\E self \in Threads : ApplyInner(self))

Spec == Init /\ [][Next]_vars

\* the scheduler runs the worker thread, and a join on a finished thread returns
FairSpec ==
    /\ Spec
    /\ WF_vars(Worker \/ ApplyInner(WORKER))
    /\ WF_vars(DtorWait)


(***************************************************************************)
(* Properties.                                                             *)
(***************************************************************************)
\* the labels inside apply_inner after the exchange
ApplyLabels == {"ai_model", "ai_camera", "ai_extractor", "ai_offset"}

\* the labels of run from the frame fetch to the end of the locked block
FrameLabels == {"run_get_frame", "run_lock", "run_extract", "run_track_R",
                "run_track_t", "run_update_image", "run_unlock"}

\* the model, the camera, the extractor and the offset all hold settings s
Applied(s) ==
    /\ model = ModelOf(s)
    /\ camera = CameraOf(s, camera)
    /\ point_extractor = ExtractorOf(s)
    /\ t_MH = OffsetOf(s)

\* ... the settings apply_inner took last
AppliedLast ==
    /\ consumed.ref # nullptr
    /\ Applied(Settings(consumed.ref.ptr))

\* every part of the configuration comes from some settings object
Configured ==
    /\ \E s \in AllSettings : model = ModelOf(s)
    /\ \E s \in AllSettings : camera = CameraOf(s, camera)
    /\ \E s \in AllSettings : point_extractor = ExtractorOf(s)

\* C1: last writer wins.  What apply_inner takes from the slot is the pointer
\* of the most recent apply() call made by then, and it is what the thread
\* inside apply_inner is applying; a pointer that was overwritten before it
\* was taken is therefore never applied.
C1_LastWriterWins ==
    /\ consumed.latest = consumed.ref.pub
    /\ \A self \in Threads : pc[self] \in ApplyLabels => tmp[self] = consumed.ref

\* the worker applies settings whose store overwrote a pointer nobody had taken
C1_Witness == pc[WORKER] = "ai_model" /\ tmp[WORKER].over

\* C2: the copy data() makes of the pose is a pose that track() wrote whole,
\* never the rotation of one pose with the translation of another.
C2_PoseReadNeverTorn ==
    pc[OWNER] \in {"data_offset", "data_lock", "data_unlock"}
        => X_CM_copy \in Poses

\* C3: the destructor's wait() returns.  Once the owner has set ABORT and
\* waits, the worker leaves its loop and the join completes.
C3_StopReturns == (pc[OWNER] = "dtor_wait") ~> (pc[OWNER] = "dtor_delete")

\* the join has returned although the worker fetched and processed a frame
\* after ABORT was set
C3_Witness ==
    /\ pc[OWNER] = "dtor_delete"
    /\ pc[WORKER] = "run_exit"
    /\ sinceAbort.process = 1

\* C4: a stored pointer is applied at most once.  Every exchange leaves the
\* slot empty, and what it takes was stored after everything taken before.
C4_AppliedAtMostOnce ==
    [][\A self \in Threads :
           (pc[self] = "ai_exchange" /\ pc'[self] # "ai_exchange")
               => /\ new_settings' = nullptr
                  /\ new_settings # nullptr
                         => new_settings.pub > consumed.ref.pub]_vars

\* the worker calls apply_inner again after a pointer was taken, the slot empty
C4_Witness ==
    /\ pc[WORKER] = "ai_exchange"
    /\ new_settings = nullptr
    /\ consumed.ref.pub > 1

\* C5: apply_inner on an empty slot returns at once and changes neither the
\* model nor the camera, the extractor, the offset or the slot.
C5_EmptySlotNoOp ==
    [][\A self \in Threads :
           (pc[self] = "ai_exchange" /\ pc'[self] # "ai_exchange"
                /\ new_settings = nullptr)
               => /\ pc'[self] = ReturnTo(self)
                  /\ UNCHANGED <<model, camera, point_extractor, t_MH,
                                 new_settings>>]_vars

\* the worker is back from apply_inner on an empty slot, the configuration
\* being the one applied before
C5_Witness ==
    /\ pc[WORKER] = "run_get_frame"
    /\ new_settings = nullptr
    /\ consumed.ref.pub = pubs
    /\ image # 0
    /\ AppliedLast

\* C6: an iteration whose frame does not yield N_POINTS points leaves the
\* pose as it was when the iteration took the lock, and shows the frame.
C6_PoseKeptWithoutModelPoints ==
    (pc[WORKER] = "run_unlock" /\ points # N_POINTS)
        => (X_CM = poseAtLock /\ image = frame)

\* a frame with too many points was shown and a tracked pose survived it
C6_Witness ==
    /\ pc[WORKER] = "run_unlock"
    /\ points > N_POINTS
    /\ X_CM \in TrackedPoses
    /\ image = frame

\* C7: the worker leaves the loop at the loop test only, and there exactly
\* when ABORT is set, whatever PAUSE is; a step that changes the commands
\* does not move the worker.
C7_OnlyAbortEndsLoop ==
    [][/\ (pc[WORKER] = "run_while" /\ pc'[WORKER] # "run_while")
              => (pc'[WORKER] = "run_done" <=> ABORT \in commands)
       /\ (pc'[WORKER] = "run_done" /\ pc[WORKER] # "run_done")
              => pc[WORKER] = "run_while"
       /\ commands' # commands => pc'[WORKER] = pc[WORKER]]_vars

\* a frame is being processed while PAUSE is set
C7_Witness ==
    /\ pc[WORKER] = "run_track_t"
    /\ commands = {PAUSE}

\* C8: the worker reaches the frame fetch only coming back from apply_inner,
\* and from the fetch to the end of the iteration no apply is under way and
\* the model, camera, extractor and offset are those of the settings taken
\* last.
C8_ApplyBeforeFrame ==
    [][/\ pc'[WORKER] \in FrameLabels
              => /\ tmp'[WORKER] = nullptr
                 /\ pc'[OWNER] \notin ApplyLabels
                 /\ AppliedLast'
       /\ (pc[WORKER] \notin FrameLabels /\ pc'[WORKER] \in FrameLabels)
              => pc[WORKER] \in {"ai_exchange", "ai_offset"}]_vars

\* points are extracted under settings published while the worker ran
C8_Witness ==
    /\ pc[WORKER] = "run_extract"
    /\ image # 0
    /\ consumed.ref.pub = MaxApply + 1
    /\ AppliedLast

\* C9: start_tracker applies the settings it publishes before it starts the
\* camera, and starts the camera before the thread: a started camera is a
\* configured one, and the worker runs on a started camera.
C9_StartOrder ==
    /\ camera.started => Configured
    /\ pc[WORKER] # "idle" => camera.started
    /\ pc[OWNER] \in {"st_camera", "st_start"}
           => (AppliedLast /\ consumed.ref.pub = pubs)

\* the camera is started and configured, the thread not yet
C9_Witness ==
    /\ pc[OWNER] = "st_start"
    /\ camera.started
    /\ pc[WORKER] = "idle"
    /\ AppliedLast

\* C10: once ABORT is set the worker takes from the slot, fetches a frame
\* and processes a frame at most once more each.
C10_OneIterationAfterAbort ==
    /\ sinceAbort.consume <= 1
    /\ sinceAbort.fetch <= 1
    /\ sinceAbort.process <= 1

\* the worker has left the loop after one whole iteration run under ABORT
C10_Witness ==
    /\ pc[WORKER] = "run_done"
    /\ sinceAbort = [consume |-> 1, fetch |-> 1, process |-> 1]

\* the labels of run at which the worker is inside the block of lines 68 to 90
LockedLabels == {"run_extract", "run_track_R", "run_track_t",
                 "run_update_image", "run_unlock"}

\* C11: the worker never holds the mutex while it is inside
\* camera.get_frame.  It holds the mutex exactly inside the block of lines 68
\* to 90, which begins after the fetch has returned and ends before the next.
C11_NoLockDuringFetch ==
    /\ pc[WORKER] = "run_get_frame" => mutex.holder # WORKER
    /\ mutex.holder = WORKER <=> pc[WORKER] \in LockedLabels

\* the worker fetches a frame, having shown one before, while the owner is
\* inside data() with the mutex
C11_Witness ==
    /\ pc[WORKER] = "run_get_frame"
    /\ image # 0
    /\ mutex.holder = OWNER

\* C12: apply() never waits and takes no lock.  Whenever the owner is
\* between calls (and has calls left to make) apply() can run, whatever the
\* worker is doing and whoever holds the mutex; and the step that publishes a
\* pointer is one store: it leaves the mutex, the worker and everything but
\* the slot as they were.
C12_ApplyNeverBlocks ==
    [][/\ (pc[OWNER] = "ready" /\ UserApplies < MaxApply) => ENABLED Apply
       /\ pubs' # pubs
              => /\ new_settings' # nullptr
                 /\ new_settings'.pub = pubs'
                 /\ pc'[WORKER] = pc[WORKER]
                 /\ UNCHANGED <<commands, mutex, tmp, config, X_CM, widget,
                                runLocals, dataLocals>>]_vars

\* a pointer is pending and apply() can run again while the worker holds the
\* mutex in the middle of track()
C12_Witness ==
    /\ pc[WORKER] = "run_track_t"
    /\ mutex.holder = WORKER
    /\ pc[OWNER] = "ready"
    /\ new_settings # nullptr
    /\ new_settings.pub > consumed.ref.pub
    /\ ENABLED Apply

\* C13: a frame miss skips the iteration and nothing else.  A fetch that
\* returns no frame, or an empty one, does not pass the test of line 67; the
\* worker then goes from the fetch straight back to the loop test, without
\* the mutex, and the step changes neither the pose nor the picture shown,
\* the points, the configuration or the slot.  The block of lines 68 to 90
\* is entered with a frame that is not empty.
C13_FrameMissSkipsIteration ==
    [][/\ \A new_frame \in BOOLEAN, f \in 0..NumFrames :
              (~new_frame \/ f = 0) => ~FrameUsable(new_frame, f)
       /\ (pc[WORKER] = "run_get_frame" /\ pc'[WORKER] # "run_get_frame")
              => \/ pc'[WORKER] = "run_lock" /\ frame' # 0
                 \/ /\ pc'[WORKER] = "run_while"
                    /\ mutex'.holder # WORKER
                    /\ UNCHANGED <<mutex, X_CM, image, points, tracked,
                                   config, new_settings, commands>>
       /\ pc'[WORKER] \in LockedLabels => frame' # 0]_vars

\* after ABORT was set the worker fetched, got no usable frame and is back at
\* the loop test without having taken the mutex; the pose tracked and the
\* picture shown before are still there
C13_Witness ==
    /\ pc[WORKER] = "run_while"
    /\ sinceAbort.fetch = 1
    /\ sinceAbort.process = 0
    /\ X_CM \in TrackedPoses
    /\ image # 0

\* data() on the identity pose and the zero offset: the composed pose (line
\* 166), its rotation after the change of basis (line 176), the array
IdentityComposed == AffineMul(Affine(Eye, Zero3), Affine(Eye, Zero3))
IdentityBasisChange == BasisChange(IdentityComposed.R)
IdentityData == PoseData(Affine(Eye, Zero3), Zero3)

\* C14: the identity pose with a zero offset gives zero output.  The pose
\* composed with the offset is the identity again, the change of basis
\* R_EG * I * R_EG^T is the identity matrix, and data() writes yaw = pitch =
\* roll = 0 and tx = ty = tz = 0: as a function, and in every call of data()
\* that read the identity pose and the zero offset.
C14_IdentityPoseGivesZero ==
    /\ IdentityComposed = Affine(Eye, Zero3)
    /\ IdentityBasisChange = Eye
    /\ IdentityData = HeadPoseData(0, 0, 0, 0, 0, 0)
    /\ (pc[OWNER] = "data_unlock" /\ X_CM_copy = Affine(Eye, Zero3)
            /\ t_MH_copy = Zero3)
           => data = HeadPoseData(0, 0, 0, 0, 0, 0)

\* data() has filled the array from the identity pose and the zero offset,
\* before any settings were applied
C14_Witness ==
    /\ pc[OWNER] = "data_unlock"
    /\ X_CM_copy = Affine(Eye, Zero3)
    /\ t_MH_copy = Zero3
    /\ consumed.ref = nullptr
    /\ data = IdentityData

\* the state of the worker's life: Idle before start() (line 146), Running
\* inside the loop of lines 59 to 96, Stopping once the loop test has seen
\* ABORT (line 97), Stopped when run has returned
Lifecycle ==
    CASE pc[WORKER] = "idle" -> "Idle"
      [] pc[WORKER] = "run_done" -> "Stopping"
      [] pc[WORKER] = "run_exit" -> "Stopped"
      [] OTHER -> "Running"

\* C15: the worker's life is Idle, Running, Stopping, Stopped in this order
\* and with no other change of state.  From the moment the loop is left no
\* step takes a pointer from the slot, fetches a frame, writes the pose or
\* shows a picture: the configuration stays, and a pointer that is pending
\* then stays in the slot for good.
C15_Lifecycle ==
    [][/\ Lifecycle' # Lifecycle
              => <<Lifecycle, Lifecycle'>> \in {<<"Idle", "Running">>,
                                                <<"Running", "Stopping">>,
                                                <<"Stopping", "Stopped">>}
       /\ Lifecycle = "Stopped" => Lifecycle' = "Stopped"
       /\ Lifecycle \in {"Stopping", "Stopped"}
              => /\ UNCHANGED <<new_settings, tmp, consumed, config, X_CM,
                                image, frame, points, sinceAbort, mutex>>
                 /\ pc'[WORKER] \in {"run_done", "run_exit"}]_vars

\* run has returned and the destructor goes on, with a pointer in the slot
\* that was stored after the worker last took one
C15_Witness ==
    /\ Lifecycle = "Stopped"
    /\ pc[OWNER] = "dtor_layout"
    /\ new_settings # nullptr
    /\ new_settings.pub > consumed.ref.pub
    /\ sinceAbort.fetch = 1

\* the settings object apply_inner took from the slot last
Taken == Settings(consumed.ref.ptr)

\* C16: an apply_inner that took a pointer rebuilds the model, then sets the
\* camera, then the extractor, then the offset, and returns; each of the four
\* steps writes its own part only, from the fields of the object taken by the
\* exchange, whatever has been stored in the slot since.
C16_ApplyOrder ==
    [][\A self \in Threads :
           /\ (pc[self] = "ai_exchange" /\ new_settings # nullptr
                   /\ pc'[self] # "ai_exchange")
                  => pc'[self] = "ai_model" /\ tmp'[self] = new_settings
           /\ (pc[self] = "ai_model" /\ pc'[self] # "ai_model")
                  => /\ pc'[self] = "ai_camera"
                     /\ model' = ModelOf(Taken)
                     /\ UNCHANGED <<camera, point_extractor, t_MH>>
           /\ (pc[self] = "ai_camera" /\ pc'[self] # "ai_camera")
                  => /\ pc'[self] = "ai_extractor"
                     /\ camera' = CameraOf(Taken, camera)
                     /\ UNCHANGED <<model, point_extractor, t_MH>>
           /\ (pc[self] = "ai_extractor" /\ pc'[self] # "ai_extractor")
                  => /\ pc'[self] = "ai_offset"
                     /\ point_extractor' = ExtractorOf(Taken)
                     /\ UNCHANGED <<model, camera, t_MH>>
           /\ (pc[self] = "ai_offset" /\ pc'[self] # "ai_offset")
                  => /\ pc'[self] = ReturnTo(self)
                     /\ t_MH' = OffsetOf(Taken)
                     /\ UNCHANGED <<model, camera, point_extractor>>
                     /\ Applied(Taken)']_vars

\* the worker is about to write the offset; the model, the camera and the
\* extractor hold the object it took, the offset still an older one, and the
\* slot already a pointer to another object
C16_Witness ==
    /\ pc[WORKER] = "ai_offset"
    /\ new_settings # nullptr
    /\ new_settings.ptr # tmp[WORKER].ptr
    /\ model = ModelOf(Taken)
    /\ camera = CameraOf(Taken, camera)
    /\ point_extractor = ExtractorOf(Taken)
    /\ t_MH = OffsetOf(Settings(new_settings.ptr))

\* C17: a thread holds a pointer to a settings object only inside the
\* apply_inner call that took it.  tmp is set by the exchange, is the
\* pointer taken last at every label of lines 116 to 128, where the fields
\* are read, and is gone when the call returns; the slot never holds it
\* meanwhile.  What the slot holds therefore says nothing about the reading:
\* the slot is empty, or holds a newer pointer, while the object is read.
C17_BorrowedDuringApplyOnly ==
    [][\A self \in Threads :
           /\ tmp'[self] # nullptr <=> pc'[self] \in ApplyLabels
           /\ pc'[self] \in ApplyLabels
                  => /\ tmp'[self] = consumed'.ref
                     /\ new_settings' # tmp'[self]
                     /\ new_settings' # nullptr
                            => new_settings'.pub > tmp'[self].pub
           /\ (pc[self] \in ApplyLabels /\ pc'[self] \notin ApplyLabels)
                  => pc[self] = "ai_offset" /\ tmp'[self] = nullptr
           /\ (pc[self] \notin ApplyLabels /\ pc'[self] \in ApplyLabels)
                  => pc[self] = "ai_exchange" /\ tmp'[self] = new_settings]_vars

\* the slot is empty and no apply() call was made since the exchange, yet the
\* worker has read the model's fields only and still reads the object taken
C17_Witness ==
    /\ pc[WORKER] = "ai_camera"
    /\ tmp[WORKER] # nullptr
    /\ new_settings = nullptr
    /\ pubs = tmp[WORKER].pub
    /\ model = ModelOf(Settings(tmp[WORKER].ptr))
    /\ t_MH # OffsetOf(Settings(tmp[WORKER].ptr))

\* C18: the video widget is not used after it is deleted.  The destructor
\* deletes it with ABORT set and run returned, no step of the worker follows
\* the deletion, and whenever the worker is at update_image the widget is
\* there.
C18_NoUseAfterDelete ==
    [][/\ pc'[WORKER] = "run_update_image" => video_widget' # NULL
       /\ (video_widget # NULL /\ video_widget' = NULL)
              => /\ ABORT \in commands
                 /\ pc[WORKER] = "run_exit"
                 /\ pc[OWNER] = "dtor_delete"
       /\ pc[OWNER] \in {"dtor_layout", "destroyed", "crashed"}
              => pc'[WORKER] = pc[WORKER] /\ image' = image]_vars

\* the widget is deleted after the join waited for a frame that the worker
\* processed and showed with ABORT already set
C18_Witness ==
    /\ pc[OWNER] = "dtor_layout"
    /\ video_frame # NULL
    /\ video_widget = NULL
    /\ pc[WORKER] = "run_exit"
    /\ image # 0
    /\ sinceAbort.process = 1

\* C19: the destructor is safe in every state of the worker's life, Idle
\* included: when it comes to line 36 the video frame it dereferences has
\* been set, and the destructor ends without a crash.
C19_DestroySafeInEveryState ==
    /\ pc[OWNER] = "dtor_layout" => video_frame # NULL
    /\ pc[OWNER] # "crashed"

\* the offsets apply_inner can have written: that of the constructor and
\* those of the settings objects
AppliedOffsets == {Zero3} \cup {OffsetOf(s) : s \in AllSettings}

\* C20: data() never reads t_MH while apply_inner writes it, and the offset
\* it composes the pose with is the offset of one settings object (or the
\* initial one), never a mix of two.
C20_OffsetReadNeverRaces ==
    /\ ~(pc[OWNER] = "data_offset" /\ pc[WORKER] = "ai_offset")
    /\ pc[OWNER] \in {"data_lock", "data_unlock"}
           => t_MH_copy \in AppliedOffsets

=============================================================================
